---- MODULE Spec2Model ----
(***************************************************************************)
(* Model of src/server.js: the M-Pesa STK push server.                     *)
(*                                                                         *)
(* Three request handlers (stkpush, callback, payment status) run on one   *)
(* JavaScript thread.  A handler runs without interruption up to its next  *)
(* `await`; the gateway (Safaricom) and the wall clock are the environment.*)
(* Strings are sequences of one-character strings, so that startsWith,     *)
(* slice, concatenation and base64 are computed, not assumed.              *)
(***************************************************************************)
EXTENDS Integers, Sequences, FiniteSets, TLC

(***************************************************************************)
(* Bounds of the model.                                                    *)
(***************************************************************************)
\* Number of requests the concurrent specification lets in flight.
MaxReqs == 2
\* The clock may advance this many seconds in all.
MaxClock == 2
\* Length of the digit tails appended to the phone prefixes.
MaxTail == 1
\* Length of the callback metadata lists.
MaxItems == 2

(***************************************************************************)
(* JavaScript values: undefined, numbers, strings.                         *)
(***************************************************************************)
Undef == [t |-> "undefined"]
Num(n) == [t |-> "number", v |-> n]
Str(s) == [t |-> "string", v |-> s]
\* A string whose characters the code never inspects.
Txt(s) == [t |-> "text", v |-> s]
Obj(o) == [t |-> "object", v |-> o]
Arr(a) == [t |-> "array", v |-> a]

\* x === y
StrictEq(x, y) == x = y

\* JavaScript truthiness, as `!x` and `x || y` use it.
Truthy(x) ==
    CASE x.t = "undefined" -> FALSE
      [] x.t = "number" -> x.v # 0
      [] x.t = "string" -> x.v # <<>>
      [] x.t = "text" -> x.v # ""
      [] OTHER -> TRUE

\* x || y
OrElse(x, y) == IF Truthy(x) THEN x ELSE y

\* String.prototype.startsWith
StartsWith(s, p) ==
    /\ Len(s) >= Len(p)
    /\ SubSeq(s, 1, Len(p)) = p

\* String.prototype.slice(n), n >= 0
Slice(s, n) == SubSeq(s, n + 1, Len(s))

(***************************************************************************)
(* MPESA_CONFIG: read once from the environment.                           *)
(***************************************************************************)
MPESA_CONFIG ==
    [ businessShortCode |-> <<"1", "7">>,
      passKey           |-> <<"b", "f">>,
      callbackURL       |-> <<"c", "b">>,
      environment       |-> "sandbox" ]

(***************************************************************************)
(* generateTimestamp: the local date and time as YYYYMMDDHHMMSS.           *)
(***************************************************************************)
\* The wall clock at start: two seconds before the new year, so that the
\* clock's advance carries through every field.
BaseDate == [year |-> 2025, month |-> 12, date |-> 31,
             hours |-> 23, minutes |-> 59, seconds |-> 58]

IsLeap(y) == (y % 4 = 0 /\ y % 100 # 0) \/ y % 400 = 0

DaysIn(y, m) ==
    IF m = 2 THEN (IF IsLeap(y) THEN 29 ELSE 28)
    ELSE IF m \in {4, 6, 9, 11} THEN 30 ELSE 31

\* new Date(): the date `c` seconds after BaseDate (fewer than a day's worth).
DateAt(c) ==
    LET s  == BaseDate.seconds + c
        mi == BaseDate.minutes + (s \div 60)
        h  == BaseDate.hours + (mi \div 60)
        d  == BaseDate.date + (h \div 24)
        dOver == d > DaysIn(BaseDate.year, BaseDate.month)
        mo == IF dOver THEN BaseDate.month + 1 ELSE BaseDate.month
    IN  [ year    |-> IF mo > 12 THEN BaseDate.year + 1 ELSE BaseDate.year,
          month   |-> IF mo > 12 THEN 1 ELSE mo,
          date    |-> IF dOver THEN 1 ELSE d,
          hours   |-> h % 24,
          minutes |-> mi % 60,
          seconds |-> s % 60 ]

Digit(n) == <<"0", "1", "2", "3", "4", "5", "6", "7", "8", "9">>[n + 1]

\* Number to string, as `+` of a number and a string converts it.
RECURSIVE NumToStr(_)
NumToStr(n) == IF n < 10 THEN <<Digit(n)>> ELSE NumToStr(n \div 10) \o <<Digit(n % 10)>>

\* ('0' + n).slice(-2)
Pad2(n) ==
    LET s == <<"0">> \o NumToStr(n)
    IN  SubSeq(s, Len(s) - 1, Len(s))

GenerateTimestamp(now) ==
    LET date == DateAt(now)
    IN  NumToStr(date.year) \o Pad2(date.month) \o Pad2(date.date)
        \o Pad2(date.hours) \o Pad2(date.minutes) \o Pad2(date.seconds)

(***************************************************************************)
(* Buffer.from(s).toString('base64')                                       *)
(***************************************************************************)
\* Character codes of the characters the configuration and timestamps use.
CharCode(ch) ==
    CASE ch = "0" -> 48 [] ch = "1" -> 49 [] ch = "2" -> 50 [] ch = "3" -> 51
      [] ch = "4" -> 52 [] ch = "5" -> 53 [] ch = "6" -> 54 [] ch = "7" -> 55
      [] ch = "8" -> 56 [] ch = "9" -> 57 [] ch = "b" -> 98 [] ch = "c" -> 99
      [] ch = "f" -> 102

B64Alphabet ==
    << "A","B","C","D","E","F","G","H","I","J","K","L","M","N","O","P",
       "Q","R","S","T","U","V","W","X","Y","Z","a","b","c","d","e","f",
       "g","h","i","j","k","l","m","n","o","p","q","r","s","t","u","v",
       "w","x","y","z","0","1","2","3","4","5","6","7","8","9","+","/" >>

B64Char(n) == B64Alphabet[n + 1]

RECURSIVE Base64(_)
Base64(s) ==
    IF Len(s) = 0 THEN <<>>
    ELSE IF Len(s) = 1 THEN
        LET a == CharCode(s[1])
        IN  <<B64Char(a \div 4), B64Char((a % 4) * 16), "=", "=">>
    ELSE IF Len(s) = 2 THEN
        LET a == CharCode(s[1])
            b == CharCode(s[2])
        IN  <<B64Char(a \div 4), B64Char((a % 4) * 16 + (b \div 16)),
              B64Char((b % 16) * 4), "=">>
    ELSE
        LET a == CharCode(s[1])
            b == CharCode(s[2])
            c == CharCode(s[3])
        IN  <<B64Char(a \div 4), B64Char((a % 4) * 16 + (b \div 16)),
              B64Char((b % 16) * 4 + (c \div 64)), B64Char(c % 64)>>
            \o Base64(Slice(s, 3))

\* The password computed once, at the start, and served from then on with
\* the current timestamp.
GeneratePassword_Cached(now) ==
    [ password  |-> Base64(MPESA_CONFIG.businessShortCode
                           \o MPESA_CONFIG.passKey \o GenerateTimestamp(0)),
      timestamp |-> GenerateTimestamp(now) ]

\* generatePassword, given the clock reading its generateTimestamp call makes.
GeneratePassword(now) ==
    LET timestamp == GenerateTimestamp(now)
    IN  [ password  |-> Base64(MPESA_CONFIG.businessShortCode
                               \o MPESA_CONFIG.passKey \o timestamp),
          timestamp |-> timestamp ]

\* generateTimestamp() and generatePassword() at each reading of the clock.
GenerateTimestampAt == [now \in 0 .. MaxClock |-> GenerateTimestamp(now)]

GeneratePasswordAt == [now \in 0 .. MaxClock |-> GeneratePassword(now)]

(***************************************************************************)
(* State.                                                                  *)
(***************************************************************************)
VARIABLES
    reqs,      \* the HTTP requests: input, handler position, locals, responses
    clock,     \* the wall clock, in seconds after BaseDate
    tokNext,   \* access tokens the gateway has issued
    idNext,    \* CheckoutRequestIDs the gateway has issued
    log        \* the console lines of the callback handler, one entry a delivery

vars == <<reqs, clock, tokNext, idNext, log>>

Requests == 1 .. MaxReqs

\* A request slot before its request arrives.
NoRequest ==
    [ kind |-> "none", body |-> Undef, pc |-> "idle",
      formattedPhone |-> Undef, accessToken |-> Undef,
      calls |-> <<>>, replies |-> <<>>, res |-> <<>> ]

Init ==
    /\ reqs = [r \in Requests |-> NoRequest]
    /\ clock = 0
    /\ tokNext = 0
    /\ idNext = 0
    /\ log = <<>>

(***************************************************************************)
(* The gateway's answers, as axios hands them to the caller: a 2xx         *)
(* response resolves, anything else rejects with an error that carries     *)
(* the response (if one came) and a message.                               *)
(***************************************************************************)
Resolved(data) == [ok |-> TRUE, data |-> data]
Rejected(response, message) == [ok |-> FALSE, response |-> response, message |-> message]

\* A non-2xx response with a JSON error body, one with an empty body, and a
\* transport failure with no response at all.
HttpErrorBody == Obj([errorCode |-> "500.001.1001", errorMessage |-> "gateway error"])
RejectedWithBody == Rejected(Obj([data |-> HttpErrorBody]), Txt("Request failed with status code 500"))
RejectedEmptyBody == Rejected(Obj([data |-> Str(<<>>)]), Txt("Request failed with status code 503"))
RejectedNoResponse == Rejected(Undef, Txt("connect ECONNREFUSED"))

AllRejections == {RejectedWithBody, RejectedEmptyBody, RejectedNoResponse}
FewRejections == {RejectedWithBody}

\* The details without the upstream body: error.message alone.
ErrorDetails_MessageOnly(error) == error.message

\* error.response?.data || error.message
ErrorDetails(error) ==
    IF error.response = Undef THEN error.message
    ELSE OrElse(error.response.v.data, error.message)

\* A response of the server: res.status(code).json(body) or .send(body).
Response(status, body) == [status |-> status, body |-> body]

\* A response sent without returning from the handler, which goes on to
\* send again.
Send_Twice(q, response) ==
    [q EXCEPT !.res = Append(Append(@, response), response), !.pc = "done"]


Send(q, response) == [q EXCEPT !.res = Append(@, response), !.pc = "done"]

Call(api, bearer, payload) == [api |-> api, bearer |-> bearer, payload |-> payload]

(***************************************************************************)
(* generateAccessToken: one GET to the OAuth endpoint; the token of a 2xx  *)
(* answer is returned, any error is logged and thrown again.               *)
(***************************************************************************)
OAuthCall == Call("oauth", Undef, Undef)

\* What the OAuth endpoint may answer now: a token it has not issued before,
\* or one of the given rejections.
TokenReplies(rejections) ==
    {Resolved(Obj([access_token |-> Num(tokNext + 1)]))} \cup rejections

\* A token cache that is never refreshed: the first token issued is used by
\* every request.
AccessTokenOf_Cached(reply) == Num(1)

\* response.data.access_token
AccessTokenOf(reply) == reply.data.v.access_token

(***************************************************************************)
(* POST /api/mpesa/stkpush                                                 *)
(***************************************************************************)
\* The validation with && for ||: only a body lacking both fields is refused.
MissingFields_Both(body) == ~Truthy(body.phoneNumber) /\ ~Truthy(body.amount)

\* !phoneNumber || !amount
MissingFields(body) == ~Truthy(body.phoneNumber) \/ ~Truthy(body.amount)

\* The phone format with the second rule testing '+' alone.
FormatPhone_AnyPlus(phoneNumber) ==
    IF StartsWith(phoneNumber, <<"0">>)
    THEN <<"2", "5", "4">> \o Slice(phoneNumber, 1)
    ELSE IF StartsWith(phoneNumber, <<"+">>)
    THEN Slice(phoneNumber, 1)
    ELSE phoneNumber

\* Format phone number (2547...)
FormatPhone(phoneNumber) ==
    IF StartsWith(phoneNumber, <<"0">>)
    THEN <<"2", "5", "4">> \o Slice(phoneNumber, 1)
    ELSE IF StartsWith(phoneNumber, <<"+", "2", "5", "4">>)
    THEN Slice(phoneNumber, 1)
    ELSE phoneNumber

\* The payload with the client's accountReference and description as they
\* came, no default taking the place of a missing one.
StkPushPayload_NoDefaults(body, formattedPhone, credentials) ==
    [ BusinessShortCode |-> MPESA_CONFIG.businessShortCode,
      Password          |-> credentials.password,
      Timestamp         |-> credentials.timestamp,
      TransactionType   |-> "CustomerPayBillOnline",
      Amount            |-> body.amount,
      PartyA            |-> formattedPhone,
      PartyB            |-> MPESA_CONFIG.businessShortCode,
      PhoneNumber       |-> formattedPhone,
      CallBackURL       |-> MPESA_CONFIG.callbackURL,
      AccountReference  |-> body.accountReference,
      TransactionDesc   |-> body.description ]

\* The push's body, lines 92-104.
StkPushPayload(body, formattedPhone, credentials) ==
    [ BusinessShortCode |-> MPESA_CONFIG.businessShortCode,
      Password          |-> credentials.password,
      Timestamp         |-> credentials.timestamp,
      TransactionType   |-> "CustomerPayBillOnline",
      Amount            |-> body.amount,
      PartyA            |-> formattedPhone,
      PartyB            |-> MPESA_CONFIG.businessShortCode,
      PhoneNumber       |-> formattedPhone,
      CallBackURL       |-> MPESA_CONFIG.callbackURL,
      AccountReference  |-> OrElse(body.accountReference, Txt("Food Order")),
      TransactionDesc   |-> OrElse(body.description, Txt("Payment for food order")) ]

\* The 400 of the validation.
StkInvalid == Response(400, [error |-> "Phone number and amount are required"])

\* The catch block's 500.
StkFailure(error) ==
    Response(500, [error |-> "Failed to initiate STK Push", details |-> ErrorDetails(error)])

\* The 200 with the id taken from a variable shared by all requests, which
\* holds the id issued before this one.
StkSuccess_SharedId(r, response) ==
    Response(200, [ success |-> TRUE,
                    message |-> "STK Push initiated successfully",
                    data |-> response.data,
                    checkoutRequestID |-> Num(idNext) ])

\* The 200 after the push was accepted.
StkSuccess(r, response) ==
    Response(200, [ success |-> TRUE,
                    message |-> "STK Push initiated successfully",
                    data |-> response.data,
                    checkoutRequestID |-> response.data.v.CheckoutRequestID ])

\* phoneNumber.startsWith on a value that is no string.
NotAFunction == Rejected(Undef, Txt("phoneNumber.startsWith is not a function"))

\* What the push endpoint may answer now: a CheckoutRequestID it has not
\* issued before, or one of the given rejections.
PushReplies(rejections) ==
    {Resolved(Obj([ MerchantRequestID |-> Num(100 + idNext + 1),
                    CheckoutRequestID |-> Num(idNext + 1),
                    ResponseCode |-> "0" ]))} \cup rejections

\* The handler up to its first await: validation, phone format, token request.
StkReceive(r, body) ==
    /\ reqs[r].kind = "none"
    /\ LET q == [reqs[r] EXCEPT !.kind = "stkpush", !.body = body]
       IN  reqs' = [reqs EXCEPT ![r] =
               IF MissingFields(body) THEN Send(q, StkInvalid)
               ELSE IF body.phoneNumber.t # "string" THEN Send(q, StkFailure(NotAFunction))
               ELSE [q EXCEPT !.formattedPhone = Str(FormatPhone(body.phoneNumber.v)),
                              !.calls = Append(@, OAuthCall),
                              !.pc = "awaitToken"]]
    /\ UNCHANGED <<clock, tokNext, idNext, log>>

\* From the token's arrival to the second await: credentials, payload, push.
\* `now` is the clock reading of generatePassword.
StkTokenReply(r, reply, now) ==
    /\ reqs[r].kind = "stkpush"
    /\ reqs[r].pc = "awaitToken"
    /\ now >= clock
    /\ LET q == [reqs[r] EXCEPT !.replies = Append(@, reply)]
       IN  IF reply.ok
           THEN /\ reqs' = [reqs EXCEPT ![r] =
                      [q EXCEPT !.accessToken = AccessTokenOf(reply),
                                !.calls = Append(@, Call("push", AccessTokenOf(reply),
                                     StkPushPayload(q.body, q.formattedPhone, GeneratePasswordAt[now]))),
                                !.pc = "awaitPush"]]
                /\ clock' = now
                /\ tokNext' = tokNext + 1
           ELSE /\ reqs' = [reqs EXCEPT ![r] = Send(q, StkFailure(reply))]
                /\ UNCHANGED <<clock, tokNext>>
    /\ UNCHANGED <<idNext, log>>

\* From the push's answer to the end.
StkPushReply(r, reply) ==
    /\ reqs[r].kind = "stkpush"
    /\ reqs[r].pc = "awaitPush"
    /\ LET q == [reqs[r] EXCEPT !.replies = Append(@, reply)]
       IN  reqs' = [reqs EXCEPT ![r] =
               IF reply.ok THEN Send(q, StkSuccess(r, reply)) ELSE Send(q, StkFailure(reply))]
    /\ idNext' = IF reply.ok THEN idNext + 1 ELSE idNext
    /\ UNCHANGED <<clock, tokNext, log>>

(***************************************************************************)
(* POST /api/mpesa/callback                                                *)
(***************************************************************************)
\* find(item => item.Name = name): the assignment is truthy for every item,
\* so the first item is found whatever its name.
Find_Assignment(items, name) == IF items = <<>> THEN Undef ELSE items[1]

\* Array.prototype.find(item => item.Name === name): the first such item.
Find(items, name) ==
    LET hits == {i \in 1 .. Len(items) : items[i].Name = name}
    IN  IF hits = {} THEN Undef
        ELSE items[CHOOSE i \in hits : \A j \in hits : i <= j]

\* found?.Value
OptValue(found) == IF found = Undef THEN Undef ELSE found.Value

\* result.CallbackMetadata?.Item || []
MetadataOf(result) ==
    IF result.CallbackMetadata = Undef THEN <<>>
    ELSE IF ~Truthy(result.CallbackMetadata.v.Item) THEN <<>>
    ELSE result.CallbackMetadata.v.Item.v

PaymentData(result) ==
    LET metadata == MetadataOf(result)
    IN  [ amount             |-> OptValue(Find(metadata, "Amount")),
          mpesaReceiptNumber |-> OptValue(Find(metadata, "MpesaReceiptNumber")),
          phoneNumber        |-> OptValue(Find(metadata, "PhoneNumber")),
          transactionDate    |-> OptValue(Find(metadata, "TransactionDate")),
          accountReference   |-> result.MerchantRequestID ]

\* Success decided by !ResultCode: an absent code counts as 0.
IsSuccessful_Falsy(callbackData) ==
    /\ Truthy(callbackData.Body.v.stkCallback)
    /\ ~Truthy(callbackData.Body.v.stkCallback.v.ResultCode)

\* callbackData.Body.stkCallback && callbackData.Body.stkCallback.ResultCode === 0
\* (evaluated only when callbackData.Body is an object)
IsSuccessful(callbackData) ==
    /\ Truthy(callbackData.Body.v.stkCallback)
    /\ StrictEq(callbackData.Body.v.stkCallback.v.ResultCode, Num(0))

\* callbackData.Body.stkCallback?.ResultDesc
FailureReason(callbackData) ==
    IF callbackData.Body.v.stkCallback = Undef THEN Undef
    ELSE callbackData.Body.v.stkCallback.v.ResultDesc

\* What the handler writes to the console for one delivery: the callback as
\* received, then the payment data, the failure reason or the error.
LogEntry(callbackData) ==
    IF callbackData.Body = Undef
    THEN [ received |-> callbackData, outcome |-> "error",
           paymentData |-> Undef, reason |-> Undef ]
    ELSE IF IsSuccessful(callbackData)
    THEN [ received |-> callbackData, outcome |-> "successful",
           paymentData |-> Obj(PaymentData(callbackData.Body.v.stkCallback.v)),
           reason |-> Undef ]
    ELSE [ received |-> callbackData, outcome |-> "failed",
           paymentData |-> Undef, reason |-> FailureReason(callbackData) ]

\* The acknowledgment: 500 from the catch block (reading a property of an
\* undefined Body throws), 200 otherwise.
CallbackAck(callbackData) ==
    IF callbackData.Body = Undef
    THEN Response(500, "Error processing callback")
    ELSE Response(200, "Callback received successfully")

\* The handler has no await: it runs from the request to the response.
CallbackReceive(r, callbackData) ==
    /\ reqs[r].kind = "none"
    /\ reqs' = [reqs EXCEPT ![r] =
           Send([@ EXCEPT !.kind = "callback", !.body = callbackData],
                CallbackAck(callbackData))]
    /\ log' = Append(log, LogEntry(callbackData))
    /\ UNCHANGED <<clock, tokNext, idNext>>

(***************************************************************************)
(* GET /api/payment/status/:checkoutRequestID                              *)
(***************************************************************************)
\* The query's body.  generatePassword() and generateTimestamp() each read
\* the clock: `now1` is the first reading, `now2` the second.
StatusQueryPayload(checkoutRequestID, now1, now2) ==
    [ BusinessShortCode |-> MPESA_CONFIG.businessShortCode,
      Password          |-> GeneratePasswordAt[now1].password,
      Timestamp         |-> GenerateTimestampAt[now2],
      CheckoutRequestID |-> checkoutRequestID ]

\* The answer taken from the callback handler's record when a callback for
\* the id has been delivered, from the gateway otherwise.
StatusSuccess_FromCallbacks(response) ==
    LET seen == {i \in 1 .. Len(log) :
                    /\ log[i].outcome \in {"successful", "failed"}
                    /\ log[i].received.Body.v.stkCallback.v.CheckoutRequestID
                           = response.data.v.CheckoutRequestID}
    IN  IF seen = {} THEN Response(200, response.data)
        ELSE Response(200, Obj([status |-> log[CHOOSE i \in seen : TRUE].outcome]))

\* res.json(response.data)
StatusSuccess(response) == Response(200, response.data)

\* The catch block's 500.
StatusFailure(error) == Response(500, [error |-> "Failed to check payment status"])

\* What the query endpoint may answer for an id: its record of the payment
\* (paid, cancelled, still being processed), or one of the given rejections.
QueryReplies(checkoutRequestID, resultCodes, rejections) ==
    {Resolved(Obj([ ResponseCode |-> "0", ResultCode |-> c,
                    CheckoutRequestID |-> checkoutRequestID ])) : c \in resultCodes}
    \cup rejections

StatusReceive(r, checkoutRequestID) ==
    /\ reqs[r].kind = "none"
    /\ reqs' = [reqs EXCEPT ![r] =
           [@ EXCEPT !.kind = "status",
                     !.body = [checkoutRequestID |-> checkoutRequestID],
                     !.calls = Append(@, OAuthCall),
                     !.pc = "awaitToken"]]
    /\ UNCHANGED <<clock, tokNext, idNext, log>>

StatusTokenReply(r, reply, now1, now2) ==
    /\ reqs[r].kind = "status"
    /\ reqs[r].pc = "awaitToken"
    /\ clock <= now1
    /\ now1 <= now2
    /\ LET q == [reqs[r] EXCEPT !.replies = Append(@, reply)]
       IN  IF reply.ok
           THEN /\ reqs' = [reqs EXCEPT ![r] =
                      [q EXCEPT !.accessToken = AccessTokenOf(reply),
                                !.calls = Append(@, Call("query", AccessTokenOf(reply),
                                     StatusQueryPayload(q.body.checkoutRequestID, now1, now2))),
                                !.pc = "awaitQuery"]]
                /\ clock' = now2
                /\ tokNext' = tokNext + 1
           ELSE /\ reqs' = [reqs EXCEPT ![r] = Send(q, StatusFailure(reply))]
                /\ UNCHANGED <<clock, tokNext>>
    /\ UNCHANGED <<idNext, log>>

\* From the query's answer to the end.
StatusQueryReply(r, resultCodes, rejections) ==
    /\ reqs[r].kind = "status"
    /\ reqs[r].pc = "awaitQuery"
    /\ \E reply \in QueryReplies(reqs[r].body.checkoutRequestID, resultCodes, rejections) :
           LET q == [reqs[r] EXCEPT !.replies = Append(@, reply)]
           IN  reqs' = [reqs EXCEPT ![r] =
                   IF reply.ok THEN Send(q, StatusSuccess(reply))
                   ELSE Send(q, StatusFailure(reply))]
    /\ UNCHANGED <<clock, tokNext, idNext, log>>

(***************************************************************************)
(* Inputs.                                                                 *)
(***************************************************************************)
RECURSIVE SeqsUpTo(_, _)
\* The sequences over S of length at most n.
SeqsUpTo(S, n) ==
    IF n = 0 THEN {<<>>}
    ELSE LET shorter == SeqsUpTo(S, n - 1)
         IN  shorter \cup {Append(q, x) : q \in shorter, x \in S}

PhonePrefixes ==
    { <<>>, <<"0">>, <<"+">>, <<"+", "2", "5">>, <<"+", "2", "5", "4">>,
      <<"2", "5", "4">>, <<"7">>, <<"0", "+", "2", "5", "4">>, <<"+", "0">> }

\* Phone numbers a client may send: strings, nothing, or a JSON number.
AllPhones ==
    {Str(p \o t) : p \in PhonePrefixes, t \in SeqsUpTo({"0", "7"}, MaxTail)}
    \cup {Undef, Num(0), Num(712)}

AllAmounts == {Undef, Num(0), Num(-5), Num(100), Txt("0")}

AllStkBodies ==
    [ phoneNumber : AllPhones, amount : AllAmounts,
      accountReference : {Undef, Txt(""), Txt("ORDER-7")},
      description : {Undef, Txt("Lunch")} ]

FewStkBodies ==
    { [ phoneNumber |-> Str(<<"0", "7">>), amount |-> Num(100),
        accountReference |-> Undef, description |-> Undef ],
      [ phoneNumber |-> Str(<<"+", "2", "5", "4", "7">>), amount |-> Num(250),
        accountReference |-> Txt("ORDER-7"), description |-> Txt("Lunch") ],
      [ phoneNumber |-> Str(<<"0", "7">>), amount |-> Undef,
        accountReference |-> Undef, description |-> Undef ] }

MetadataItems ==
    [ Name : {"Amount", "MpesaReceiptNumber", "PhoneNumber", "TransactionDate", "Balance"},
      Value : {Num(500), Txt("ABC123")} ]

\* The CheckoutRequestIDs that callbacks and status queries name.
CheckoutIds == {1, 2}

StkCallback(code, desc, id, metadata) ==
    Obj([ MerchantRequestID |-> Num(100 + id), CheckoutRequestID |-> Num(id),
          ResultCode |-> code, ResultDesc |-> desc, CallbackMetadata |-> metadata ])

Envelope(stkCallback) == [Body |-> Obj([stkCallback |-> stkCallback])]

NoBody == [Body |-> Undef]

\* Callback bodies of every shape: no Body, no stkCallback, any ResultCode
\* (also none, and the string "0"), with and without ResultDesc, metadata
\* absent, without Item, or with any list of items.
AllCallbacks ==
    {NoBody, Envelope(Undef)}
    \cup { Envelope(StkCallback(code, desc, 1, metadata)) :
             code \in {Undef, Num(0), Num(1032), Txt("0")},
             desc \in {Undef, Txt("Request cancelled by user")},
             metadata \in {Undef, Obj([Item |-> Undef])}
                 \cup {Obj([Item |-> Arr(l)]) : l \in SeqsUpTo(MetadataItems, MaxItems)} }

PaidMetadata ==
    Obj([Item |-> Arr(<< [Name |-> "Amount", Value |-> Num(500)],
                         [Name |-> "MpesaReceiptNumber", Value |-> Txt("ABC123")] >>)])

FewCallbacks ==
    { Envelope(StkCallback(Num(0), Txt("The service request is processed successfully."),
                                id, PaidMetadata)) : id \in CheckoutIds }
    \cup { Envelope(StkCallback(Num(1032), Txt("Request cancelled by user"), id, Undef)) :
             id \in CheckoutIds }

AllResultCodes == {"0", "1032", "4999"}
FewResultCodes == {"0"}

(***************************************************************************)
(* Specifications.                                                         *)
(***************************************************************************)
\* Requests in flight together, a few inputs each.
Next ==
    \E r \in Requests :
        \/ \E body \in FewStkBodies : StkReceive(r, body)
        \/ \E reply \in TokenReplies(FewRejections), now \in clock .. MaxClock :
               StkTokenReply(r, reply, now)
        \/ \E reply \in PushReplies(FewRejections) : StkPushReply(r, reply)
        \/ \E callbackData \in FewCallbacks : CallbackReceive(r, callbackData)
        \/ StatusReceive(r, Num(1))
        \/ \E reply \in TokenReplies(FewRejections), now1 \in clock .. MaxClock,
              now2 \in clock .. MaxClock :
               StatusTokenReply(r, reply, now1, now2)
        \/ StatusQueryReply(r, FewResultCodes, FewRejections)

Spec == Init /\ [][Next]_vars

\* The gateway call that request r awaits returns or fails: the awaited
\* promise settles and the handler runs on.
GatewaySettles(r) ==
    \/ \E reply \in TokenReplies(FewRejections), now \in clock .. MaxClock :
           StkTokenReply(r, reply, now)
    \/ \E reply \in PushReplies(FewRejections) : StkPushReply(r, reply)
    \/ \E reply \in TokenReplies(FewRejections), now1 \in clock .. MaxClock,
          now2 \in clock .. MaxClock :
           StatusTokenReply(r, reply, now1, now2)
    \/ StatusQueryReply(r, FewResultCodes, FewRejections)

\* One request, every input and every answer of the gateway.
NextSeq ==
    \/ \E body \in AllStkBodies : StkReceive(1, body)
    \/ \E reply \in TokenReplies(AllRejections), now \in clock .. MaxClock :
           StkTokenReply(1, reply, now)
    \/ \E reply \in PushReplies(AllRejections) : StkPushReply(1, reply)
    \/ \E callbackData \in AllCallbacks : CallbackReceive(1, callbackData)
    \/ \E id \in CheckoutIds : StatusReceive(1, Num(id))
    \/ \E reply \in TokenReplies(AllRejections), now1 \in clock .. MaxClock,
          now2 \in clock .. MaxClock :
           StatusTokenReply(1, reply, now1, now2)
    \/ StatusQueryReply(1, AllResultCodes, AllRejections)

SpecSeq == Init /\ [][NextSeq]_vars

\* The same, with every gateway call returning or failing in the end.
FairSpecSeq == SpecSeq /\ WF_vars(GatewaySettles(1))

(***************************************************************************)
(* Properties.                                                             *)
(***************************************************************************)
Last(q) == q[Len(q)]

StkRequests == {r \in Requests : reqs[r].kind = "stkpush"}
CallbackRequests == {r \in Requests : reqs[r].kind = "callback"}
StatusRequests == {r \in Requests : reqs[r].kind = "status"}

\* C1: a stkpush request whose body lacks phoneNumber or lacks amount is
\* answered 400, and no call to the gateway (OAuth or push) is made for it,
\* in any state before or after the answer.
C1_MissingFieldRefused ==
    \A r \in StkRequests :
        (reqs[r].body.phoneNumber = Undef \/ reqs[r].body.amount = Undef)
        => /\ reqs[r].calls = <<>>
           /\ Len(reqs[r].res) = 1
           /\ reqs[r].res[1].status = 400

\* A request with a phone number and no amount has been answered.
C1_Witness ==
    \E r \in StkRequests :
        /\ reqs[r].body.phoneNumber.t = "string"
        /\ Truthy(reqs[r].body.phoneNumber)
        /\ reqs[r].body.amount = Undef
        /\ reqs[r].pc = "done"

\* The envelope has the shape Body.stkCallback.{...}.
HasExpectedShape(callbackData) ==
    /\ callbackData.Body # Undef
    /\ callbackData.Body.v.stkCallback # Undef

\* C2: the callback handler answers 200 for every envelope of the expected
\* shape, whatever its ResultCode, and 500 for every envelope that is not of
\* that shape: one without Body, or one whose Body has no stkCallback.
C2_AckByShape ==
    \A r \in CallbackRequests :
        /\ Len(reqs[r].res) = 1
        /\ HasExpectedShape(reqs[r].body) => reqs[r].res[1].status = 200
        /\ ~HasExpectedShape(reqs[r].body) => reqs[r].res[1].status = 500

\* The console entries that report an outcome (payment data or a failure
\* reason) for the CheckoutRequestID `id`.
OutcomesFor(id) ==
    SelectSeq(log, LAMBDA e :
        /\ e.outcome \in {"successful", "failed"}
        /\ e.received.Body.v.stkCallback # Undef
        /\ e.received.Body.v.stkCallback.v.CheckoutRequestID = Num(id))

\* C3: whatever callbacks are delivered, the outcome of a CheckoutRequestID
\* is reported once: a second delivery for the same id is a no-op.
C3_OneOutcomePerId == \A id \in CheckoutIds : Len(OutcomesFor(id)) <= 1

\* The ResultCode of a delivered envelope, absent when there is no stkCallback.
ResultCodeOf(callbackData) ==
    IF callbackData.Body.v.stkCallback = Undef THEN Undef
    ELSE callbackData.Body.v.stkCallback.v.ResultCode

ResultDescOf(callbackData) ==
    IF callbackData.Body.v.stkCallback = Undef THEN Undef
    ELSE callbackData.Body.v.stkCallback.v.ResultDesc

\* The deliveries whose envelope has a Body.
Processed == {i \in 1 .. Len(log) : log[i].received.Body # Undef}

\* C4: a callback is taken as successful exactly when its ResultCode is the
\* number 0; with any other ResultCode, or none, it is taken as failed with
\* ResultDesc as the reason and no payment data, with or without metadata.
C4_SuccessIffResultCodeZero ==
    \A i \in Processed :
        LET code == ResultCodeOf(log[i].received)
        IN  /\ log[i].outcome = "successful" <=> code = Num(0)
            /\ code # Num(0) =>
                   /\ log[i].outcome = "failed"
                   /\ log[i].reason = ResultDescOf(log[i].received)
                   /\ log[i].paymentData = Undef

\* A callback with ResultCode 1032 that carries metadata items was taken as failed.
C4_Witness ==
    \E i \in Processed :
        /\ ResultCodeOf(log[i].received) = Num(1032)
        /\ log[i].received.Body.v.stkCallback.v.CallbackMetadata # Undef
        /\ Truthy(log[i].received.Body.v.stkCallback.v.CallbackMetadata.v.Item)
        /\ Len(log[i].received.Body.v.stkCallback.v.CallbackMetadata.v.Item.v) > 0
        /\ log[i].outcome = "failed"
        /\ log[i].reason = Txt("Request cancelled by user")

\* The status requests whose query the gateway rejected with a response body.
QueryRejectedWithBody ==
    {r \in StatusRequests :
        /\ Len(reqs[r].replies) = 2
        /\ ~reqs[r].replies[2].ok
        /\ reqs[r].replies[2].response # Undef
        /\ Truthy(reqs[r].replies[2].response.v.data)}

\* C5: when the gateway answers a status query with an error response of its
\* own, the client receives that response body.
C5_GatewayErrorForwarded ==
    \A r \in QueryRejectedWithBody :
        /\ Len(reqs[r].res) = 1
        /\ reqs[r].res[1].body = reqs[r].replies[2].response.v.data

\* C6: a stkpush request whose amount is zero or negative is answered 400
\* and no call to the gateway is made for it (stated for the requests whose
\* phoneNumber is a string, the documented type).
C6_NonPositiveAmountRefused ==
    \A r \in StkRequests :
        ( /\ reqs[r].body.phoneNumber.t \in {"undefined", "string"}
          /\ reqs[r].body.amount.t = "number"
          /\ reqs[r].body.amount.v <= 0 )
        => /\ reqs[r].calls = <<>>
           /\ Len(reqs[r].res) = 1
           /\ reqs[r].res[1].status = 400

\* The stkpush requests whose last gateway call (token or push) was rejected.
StkRejected ==
    {r \in StkRequests : reqs[r].replies # <<>> /\ ~Last(reqs[r].replies).ok}

\* The upstream response has a body.
HasUpstreamBody(error) ==
    /\ error.response # Undef
    /\ error.response.v.data # Str(<<>>)

\* C7: when the token fetch or the push is rejected, the request is answered
\* 500 with details equal to the upstream response body, or to the error's
\* message when no body came, and no further gateway call is made for it: the
\* rejected call is the request's last one, made once.
C7_UpstreamFailureReported ==
    \A r \in StkRejected :
        LET error == Last(reqs[r].replies)
        IN  /\ Len(reqs[r].res) = 1
            /\ reqs[r].res[1].status = 500
            /\ reqs[r].res[1].body.details =
                   IF HasUpstreamBody(error) THEN error.response.v.data ELSE error.message
            /\ Len(reqs[r].calls) = Len(reqs[r].replies)
            /\ Len(reqs[r].replies) = 1 => reqs[r].calls = <<OAuthCall>>
            /\ Len(reqs[r].replies) = 2 =>
                   /\ reqs[r].calls[1] = OAuthCall
                   /\ reqs[r].calls[2].api = "push"

\* A push was rejected with a JSON error body after a granted token, and the
\* request was answered.
C7_Witness ==
    \E r \in StkRejected :
        /\ Len(reqs[r].replies) = 2
        /\ Last(reqs[r].replies) = RejectedWithBody
        /\ reqs[r].pc = "done"
        /\ reqs[r].res[1].body.details = HttpErrorBody

\* The items of a delivered callback's metadata, none when it is missing.
ItemsOf(callbackData) ==
    LET metadata == callbackData.Body.v.stkCallback.v.CallbackMetadata
    IN  IF metadata = Undef THEN <<>>
        ELSE IF metadata.v.Item = Undef THEN <<>>
        ELSE metadata.v.Item.v

\* The Values the items named `name` carry, wherever they stand in the list.
ValuesNamed(items, name) ==
    {items[i].Value : i \in {j \in 1 .. Len(items) : items[j].Name = name}}

MetadataFields ==
    { <<"amount", "Amount">>, <<"mpesaReceiptNumber", "MpesaReceiptNumber">>,
      <<"phoneNumber", "PhoneNumber">>, <<"transactionDate", "TransactionDate">> }

\* The deliveries taken as successful.
Successful == {i \in 1 .. Len(log) : log[i].outcome = "successful"}

\* C8: in the payment data of a successful callback each of amount,
\* mpesaReceiptNumber, phoneNumber and transactionDate is the Value of an item
\* of that Name, wherever it stands in the list, and undefined when no item
\* has that Name or the metadata is missing; the callback is answered 200.
C8_MetadataByName ==
    /\ \A i \in Successful :
           \A f \in MetadataFields :
               LET values == ValuesNamed(ItemsOf(log[i].received), f[2])
                   got == log[i].paymentData.v[f[1]]
               IN  IF values = {} THEN got = Undef ELSE got \in values
    /\ \A r \in CallbackRequests :
           (reqs[r].body.Body # Undef /\ ResultCodeOf(reqs[r].body) = Num(0))
           => reqs[r].res = <<Response(200, "Callback received successfully")>>

\* A successful callback whose Amount item stands second, after an item of
\* another name, and which has no MpesaReceiptNumber item.
C8_Witness ==
    \E i \in Successful :
        LET items == ItemsOf(log[i].received)
        IN  /\ Len(items) = 2
            /\ items[1].Name = "Balance"
            /\ items[2] = [Name |-> "Amount", Value |-> Num(500)]
            /\ log[i].paymentData.v.amount = Num(500)
            /\ log[i].paymentData.v.mpesaReceiptNumber = Undef

\* The three rules of the phone format, said of a number p and its format f.
Normalized(p, f) ==
    IF p # <<>> /\ Head(p) = "0"
    THEN f = <<"2", "5", "4">> \o Tail(p)
    ELSE IF Len(p) >= 4 /\ <<p[1], p[2], p[3], p[4]>> = <<"+", "2", "5", "4">>
    THEN Len(f) = Len(p) - 1 /\ \A i \in 1 .. Len(f) : f[i] = p[i + 1]
    ELSE f = p

\* The stkpush requests that have submitted their push.
Pushed == {r \in StkRequests : Len(reqs[r].calls) = 2}

\* C9: the phone number is formatted by the rules in order (a leading 0
\* becomes 254; else a leading +254 loses its +; else it is unchanged), and
\* the formatted number is what the push carries as PartyA and as PhoneNumber.
C9_PhoneNormalized ==
    \A r \in StkRequests :
        /\ reqs[r].calls # <<>> =>
               /\ reqs[r].formattedPhone.t = "string"
               /\ Normalized(reqs[r].body.phoneNumber.v, reqs[r].formattedPhone.v)
        /\ r \in Pushed =>
               /\ reqs[r].calls[2].payload.PartyA = reqs[r].formattedPhone
               /\ reqs[r].calls[2].payload.PhoneNumber = reqs[r].formattedPhone

\* A push went out for a number that starts with 0 and goes on with +254:
\* the first rule applied, the second did not.
C9_Witness ==
    \E r \in Pushed :
        /\ reqs[r].body.phoneNumber = Str(<<"0", "+", "2", "5", "4">>)
        /\ reqs[r].calls[2].payload.PartyA = Str(<<"2", "5", "4", "+", "2", "5", "4">>)

\* The stkpush requests answered 200.
StkSucceeded ==
    {r \in StkRequests : reqs[r].res # <<>> /\ reqs[r].res[1].status = 200}

\* C10: under every interleaving of stkpush requests, a success response
\* carries the CheckoutRequestID the gateway issued in answer to that
\* request's own push, the push carried that request's own phone number,
\* amount and token, and no two requests are answered with the same id.
C10_OwnCheckoutRequestID ==
    /\ \A r \in StkSucceeded :
           /\ Len(reqs[r].replies) = 2
           /\ reqs[r].res[1].body.checkoutRequestID =
                  reqs[r].replies[2].data.v.CheckoutRequestID
           /\ reqs[r].res[1].body.data = reqs[r].replies[2].data
    /\ \A r \in Pushed :
           /\ reqs[r].calls[2].payload.Amount = reqs[r].body.amount
           /\ Normalized(reqs[r].body.phoneNumber.v, reqs[r].calls[2].payload.PartyA.v)
           /\ reqs[r].calls[2].bearer = reqs[r].replies[1].data.v.access_token
    /\ \A r1, r2 \in StkSucceeded :
           r1 # r2 => reqs[r1].res[1].body.checkoutRequestID
                          # reqs[r2].res[1].body.checkoutRequestID

\* Two requests with different phone numbers were in flight together: the
\* gateway answered their pushes in the opposite order to their token
\* requests, and both were answered 200.
C10_Witness ==
    \E r1, r2 \in StkSucceeded :
        /\ r1 # r2
        /\ reqs[r1].body.phoneNumber # reqs[r2].body.phoneNumber
        /\ reqs[r1].accessToken = Num(1)
        /\ reqs[r2].accessToken = Num(2)
        /\ reqs[r1].res[1].body.checkoutRequestID = Num(2)
        /\ reqs[r2].res[1].body.checkoutRequestID = Num(1)

\* The requests that need a token: the status queries, and the stkpush
\* requests that passed the validation and the phone format.
NeedToken == StatusRequests \cup {r \in StkRequests : reqs[r].calls # <<>>}

\* The OAuth calls among the gateway calls of request r.
OAuthCallsOf(r) == SelectSeq(reqs[r].calls, LAMBDA c : c.api = "oauth")

\* C11: every request that needs a token makes exactly one OAuth call, as
\* its first gateway call; its push or query is issued only after that call
\* was answered with a token and carries that token as bearer; no two
\* requests send the same token.
C11_FreshTokenPerRequest ==
    /\ \A r \in StkRequests :
           (~MissingFields(reqs[r].body) /\ reqs[r].body.phoneNumber.t = "string")
           => r \in NeedToken
    /\ \A r \in NeedToken :
           /\ Len(OAuthCallsOf(r)) = 1
           /\ reqs[r].calls[1] = OAuthCall
           /\ Len(reqs[r].calls) <= 2
           /\ Len(reqs[r].calls) = 2 =>
                  /\ reqs[r].calls[2].api = (IF reqs[r].kind = "status" THEN "query" ELSE "push")
                  /\ Len(reqs[r].replies) >= 1
                  /\ reqs[r].replies[1].ok
                  /\ reqs[r].calls[2].bearer = reqs[r].replies[1].data.v.access_token
    /\ \A r1, r2 \in NeedToken :
           (r1 # r2 /\ Len(reqs[r1].calls) = 2 /\ Len(reqs[r2].calls) = 2)
           => reqs[r1].calls[2].bearer # reqs[r2].calls[2].bearer

\* A stkpush request and a status query held their tokens together: the
\* query was sent with the second token issued, the push with the first.
C11_Witness ==
    \E r1 \in StkRequests, r2 \in StatusRequests :
        /\ Len(reqs[r1].calls) = 2
        /\ Len(reqs[r2].calls) = 2
        /\ reqs[r1].calls[2].bearer = Num(1)
        /\ reqs[r2].calls[2].bearer = Num(2)
        /\ reqs[r1].pc = "awaitPush"
        /\ reqs[r2].pc = "awaitQuery"

\* The status queries the gateway answered with a 2xx response.
QueryAnswered ==
    {r \in StatusRequests : Len(reqs[r].replies) = 2 /\ reqs[r].replies[2].ok}

\* A step of the status handler: a status query arrives or moves on.
StatusStep ==
    \E r \in Requests : reqs'[r].kind = "status" /\ reqs'[r] # reqs[r]

\* C12: a status query that the gateway answers is answered 200 with the
\* gateway's response body as it came, whatever callbacks were delivered
\* before; and no step of the status handler changes what the callback
\* handler has recorded, or any other request.
C12_StatusPassThrough ==
    /\ [](\A r \in QueryAnswered :
             reqs[r].res = <<Response(200, reqs[r].replies[2].data)>>)
    /\ [][StatusStep =>
             /\ log' = log
             /\ idNext' = idNext
             /\ \A r \in Requests : reqs[r].kind # "status" /\ reqs'[r].kind # "status"
                                    => reqs'[r] = reqs[r]]_vars

\* A query for id 1 was answered by the gateway and a failed callback for
\* id 1 was delivered.
C12_Witness ==
    \E r \in QueryAnswered :
        /\ reqs[r].body.checkoutRequestID = Num(1)
        /\ reqs[r].pc = "done"
        /\ Len(OutcomesFor(1)) = 1
        /\ log[1].outcome = "failed"

\* The fields of the push payload that do not depend on the optional inputs.
FixedPayloadFields(r) ==
    LET payload == reqs[r].calls[2].payload
    IN  /\ payload.BusinessShortCode = MPESA_CONFIG.businessShortCode
        /\ payload.PartyB = MPESA_CONFIG.businessShortCode
        /\ payload.CallBackURL = MPESA_CONFIG.callbackURL
        /\ payload.TransactionType = "CustomerPayBillOnline"
        /\ payload.Amount = reqs[r].body.amount

\* The pushes of the requests that are valid by the specification too: a
\* positive amount and a phone number that formats to 254...
ValidPushed ==
    {r \in Pushed :
        /\ reqs[r].body.amount.t = "number"
        /\ reqs[r].body.amount.v > 0
        /\ StartsWith(reqs[r].formattedPhone.v, <<"2", "5", "4">>)}

\* C13 as stated: the payload carries the shortcode as BusinessShortCode and
\* PartyB, the configured callback URL, CustomerPayBillOnline, the client's
\* amount, and the client's accountReference and description whenever the
\* client gave them, "Food Order" and "Payment for food order" when absent.
C13_PayloadAsStated ==
    \A r \in ValidPushed :
        /\ FixedPayloadFields(r)
        /\ reqs[r].calls[2].payload.AccountReference =
               IF reqs[r].body.accountReference # Undef
               THEN reqs[r].body.accountReference ELSE Txt("Food Order")
        /\ reqs[r].calls[2].payload.TransactionDesc =
               IF reqs[r].body.description # Undef
               THEN reqs[r].body.description ELSE Txt("Payment for food order")

\* C13 as amended: the same, with the client's accountReference and
\* description used when given and not empty, and the defaults when they are
\* absent or the empty string.
C13_PayloadDefaults ==
    \A r \in Pushed :
        /\ FixedPayloadFields(r)
        /\ reqs[r].calls[2].payload.AccountReference =
               IF reqs[r].body.accountReference \notin {Undef, Txt("")}
               THEN reqs[r].body.accountReference ELSE Txt("Food Order")
        /\ reqs[r].calls[2].payload.TransactionDesc =
               IF reqs[r].body.description \notin {Undef, Txt("")}
               THEN reqs[r].body.description ELSE Txt("Payment for food order")

\* A push went out for a request with an empty accountReference and a
\* description: the reference was defaulted, the description kept.
C13_Witness ==
    \E r \in ValidPushed :
        /\ reqs[r].body.accountReference = Txt("")
        /\ reqs[r].body.description = Txt("Lunch")
        /\ reqs[r].calls[2].payload.AccountReference = Txt("Food Order")
        /\ reqs[r].calls[2].payload.TransactionDesc = Txt("Lunch")

\* base64(shortCode || passKey || timestamp)
PasswordFor(timestamp) ==
    Base64(MPESA_CONFIG.businessShortCode \o MPESA_CONFIG.passKey \o timestamp)

\* The stkpush handler submits its push in this step.
SubmitsPush(r) ==
    /\ reqs[r].kind = "stkpush"
    /\ Len(reqs[r].calls) = 1
    /\ Len(reqs'[r].calls) = 2

\* C14: the password generatePassword returns is the base64 encoding of
\* shortCode || passKey || timestamp for the timestamp it returns with it;
\* two calls give the same password when their timestamps are equal and
\* different passwords when they differ; and each call takes its timestamp
\* from the clock as it stands at the call, not from an earlier call.
C14_PasswordDerivation ==
    /\ [](\A r \in Pushed :
             reqs[r].calls[2].payload.Password
                 = PasswordFor(reqs[r].calls[2].payload.Timestamp))
    /\ [](\A r1, r2 \in Pushed :
             reqs[r1].calls[2].payload.Timestamp = reqs[r2].calls[2].payload.Timestamp
             <=> reqs[r1].calls[2].payload.Password = reqs[r2].calls[2].payload.Password)
    /\ [][\A r \in Requests :
             SubmitsPush(r) =>
                 /\ clock' >= clock
                 /\ reqs'[r].calls[2].payload.Timestamp = GenerateTimestamp(clock')
                 /\ reqs'[r].calls[2].payload.Password
                        = PasswordFor(GenerateTimestamp(clock'))]_vars

\* Two pushes were submitted at different clock readings, the later one in
\* the new year, with different passwords.
C14_Witness ==
    \E r1, r2 \in Pushed :
        /\ reqs[r1].calls[2].payload.Timestamp = GenerateTimestamp(0)
        /\ reqs[r2].calls[2].payload.Timestamp = GenerateTimestamp(2)
        /\ reqs[r1].calls[2].payload.Password # reqs[r2].calls[2].payload.Password

\* The requests that have sent a gateway request with Password and Timestamp.
SentCredentials == {r \in Requests : Len(reqs[r].calls) = 2}

\* C15: in every push and every status query sent to the gateway, Timestamp
\* is the timestamp the Password encodes, however the clock advances while
\* the request is built.
C15_TimestampMatchesPassword ==
    \A r \in SentCredentials :
        reqs[r].calls[2].payload.Password
            = PasswordFor(reqs[r].calls[2].payload.Timestamp)

\* The requests that have arrived.
Received == {r \in Requests : reqs[r].kind # "none"}

\* C16: every request to the three handlers is answered exactly once on
\* every path: never a second response, a handler that has ended has sent
\* one, a response once sent stays the only one, and, the gateway calls
\* returning or failing, every request that arrived is answered.
C16_ExactlyOneResponse ==
    /\ [](\A r \in Requests :
             /\ Len(reqs[r].res) <= 1
             /\ reqs[r].pc = "done" <=> Len(reqs[r].res) = 1
             /\ r \in Received /\ reqs[r].pc # "done"
                    => reqs[r].pc \in {"awaitToken", "awaitPush", "awaitQuery"})
    /\ [][\A r \in Requests :
             Len(reqs[r].res) = 1 => reqs'[r].res = reqs[r].res]_vars
    /\ \A r \in Requests : (r \in Received) ~> (Len(reqs[r].res) = 1)

\* A stkpush was answered after both of its gateway calls settled: the token
\* was issued, the push was rejected, and the one response is the 500.
C16_Witness ==
    \E r \in StkRequests :
        /\ Len(reqs[r].replies) = 2
        /\ reqs[r].replies[1].ok
        /\ ~reqs[r].replies[2].ok
        /\ reqs[r].pc = "done"
        /\ reqs[r].res = <<StkFailure(reqs[r].replies[2])>>

====
